---- MODULE Spec2Model ----
(***************************************************************************)
(* Model of main.py: the hourly scheduling loop (loop_crypto), the         *)
(* per-instrument pipeline (analyze_coin) and the data clients             *)
(* (get_coinbase_price, get_coinbase_orderbook, get_news_for_symbol).      *)
(*                                                                         *)
(* Time is the local wall clock of America/Bogota (no daylight saving) as  *)
(* a whole number of seconds since local midnight, wrapping at 24h.        *)
(* Code between two awaits runs without interruption on the event loop, so *)
(* each such block is one action.                                          *)
(***************************************************************************)
EXTENDS Integers, Sequences, FiniteSets, TLC

VARIABLES
    pc,               \* position of loop_crypto
    coin,             \* index into COINS of the instrument in progress, 0 if none
    clock,            \* the wall clock (seconds since local midnight)
    now,              \* loop_crypto's local `now` (lines 297 and 307)
    check_now,        \* history: the reading used by the last window check
    wait_seconds,     \* loop_crypto's local `wait_seconds`
    branch,           \* history: branch of the window check in this cycle
    chart_buf,        \* analyze_coin's local `chart_buf` is not None
    analyzed,         \* history: instruments whose analyze_coin was entered this cycle
    failed,           \* history: instruments whose pipeline raised this cycle
    lastError,        \* history: the step that went wrong last in this cycle
    sent,             \* history: messages delivered this cycle, <<instrument, kind>>
    spawned,          \* number of loop_crypto tasks created
    startupAttempts,  \* number of attempts to send the startup announcement
    startupDelivered, \* the startup announcement was delivered
    woke,             \* the loop has returned from asyncio.sleep at least once
    done,             \* history: instruments whose analyze_coin returned this cycle
    pending,          \* GET / requests received and not answered yet
    response,         \* body of the last answer to GET /
    call              \* SpecFunctions: the function called, its inputs and its result

vars == <<pc, coin, clock, now, check_now, wait_seconds, branch, chart_buf,
          analyzed, failed, lastError, sent, spawned, startupAttempts,
          startupDelivered, woke, done, pending, response, call>>

loopVars == <<pc, coin, clock, now, check_now, wait_seconds, branch, chart_buf,
              analyzed, failed, lastError, sent, spawned, startupAttempts,
              startupDelivered, woke, done, pending, response>>

----------------------------------------------------------------------------
(* Bounds of the model *)

\* Longest time one blocking step (a provider chain or a delivery) takes.
StepSeconds == 25

----------------------------------------------------------------------------
(* Clock arithmetic *)

Day == 24 * 3600

HMS(h, m, s) == h * 3600 + m * 60 + s

Hour(t) == (t \div 3600) % 24

Minute(t) == (t % 3600) \div 60

Max(a, b) == IF a >= b THEN a ELSE b

\* Process start times tried: the window's edges, the hour's edges, midnight.
StartTimes ==
    { HMS(5, 59, 0),  HMS(5, 59, 59), HMS(6, 0, 0),   HMS(6, 0, 4),
      HMS(12, 58, 55), HMS(12, 59, 5), HMS(12, 59, 6), HMS(12, 59, 59),
      HMS(20, 59, 30), HMS(21, 29, 50), HMS(21, 30, 0), HMS(21, 30, 59),
      HMS(21, 31, 0), HMS(23, 59, 40) }

Durations == {0, StepSeconds}

----------------------------------------------------------------------------
(* loop_crypto: window check and sleep computation *)

COINS == <<"bitcoin", "ethereum", "ripple">>

MIN_WAIT == 60

\* Variant of line 299 that opens the window an hour late (6 < hour).
InWindow_LowerOff(hour, minute) ==
    (6 < hour /\ hour < 21) \/ (hour = 21 /\ minute <= 30)

\* Variant of line 299 that shuts minute 30 out (minute < 30).
InWindow_StrictMinute(hour, minute) ==
    (6 <= hour /\ hour < 21) \/ (hour = 21 /\ minute < 30)

\* line 299: 6 <= now.hour < 21 or (now.hour == 21 and now.minute <= 30)
InWindow(hour, minute) ==
    (6 <= hour /\ hour < 21) \/ (hour = 21 /\ minute <= 30)

\* Variant of line 308 without the added hour: now.replace(minute=0, second=5).
NextRun_SameHour(t) == (t \div 3600) * 3600 + 5

\* line 308: (now + 1h).replace(minute=0, second=5, microsecond=0), counted
\* in seconds since the midnight that precedes `t` (so it may exceed Day).
NextRun(t) == ((t + 3600) \div 3600) * 3600 + 5

\* Variant of lines 309-311 without the max(..., 60) of line 311.
WaitSeconds_NoFloor(t) == NextRun(t) - t

\* lines 309-311: max((next_run - now).total_seconds(), 60)
WaitSeconds(t) == Max(NextRun(t) - t, MIN_WAIT)

\* Variant without line 307: the sleep is computed from the reading of the
\* window check.
Resample_Stale(wall, old) == old

\* line 307: the reading the sleep is computed from, given the wall clock and
\* the reading of the window check.
Resample(wall, old) == wall

----------------------------------------------------------------------------
(* Initial state: the process has started, startup_event has not run yet.  *)

NoCall == [fn |-> "none"]

NoResponse == [status |-> "none"]

Init ==
    /\ pc = "not_started"
    /\ coin = 0
    /\ clock \in StartTimes
    /\ now = 0
    /\ check_now = 0
    /\ wait_seconds = 0
    /\ branch = "none"
    /\ chart_buf = FALSE
    /\ analyzed = <<>>
    /\ failed = {}
    /\ lastError = "none"
    /\ sent = <<>>
    /\ spawned = 0
    /\ startupAttempts = 0
    /\ startupDelivered = FALSE
    /\ woke = FALSE
    /\ done = <<>>
    /\ pending = 0
    /\ response = NoResponse
    /\ call = NoCall

Tick(d) == clock' = (clock + d) % Day

\* lines 321-324
startup_event ==
    /\ pc = "not_started"
    /\ spawned' = spawned + 1
    /\ pc' = "startup"
    /\ UNCHANGED <<coin, clock, now, check_now, wait_seconds, branch, chart_buf,
                   analyzed, failed, lastError, sent, startupAttempts,
                   startupDelivered, woke, done, call, pending, response>>

\* lines 291-294: one attempt; an exception is printed and dropped.
StartupAnnounce ==
    /\ pc = "startup"
    /\ \E ok \in BOOLEAN, d \in Durations :
          /\ startupAttempts' = startupAttempts + 1
          /\ startupDelivered' = ok
          /\ Tick(d)
    /\ pc' = "check"
    /\ UNCHANGED <<coin, now, check_now, wait_seconds, branch, chart_buf,
                   analyzed, failed, lastError, sent, spawned, woke, done, call,
                   pending, response>>

\* lines 297-304: sample the clock and choose the branch.
WindowCheck ==
    /\ pc = "check"
    /\ now' = clock
    /\ check_now' = clock
    /\ analyzed' = <<>>
    /\ failed' = {}
    /\ lastError' = "none"
    /\ sent' = <<>>
    /\ done' = <<>>
    /\ IF InWindow(Hour(clock), Minute(clock))
          THEN /\ branch' = "analyze"
               /\ pc' = "compute"
               /\ coin' = 1
          ELSE /\ branch' = "skip"
               /\ pc' = "resample"
               /\ coin' = 0
    /\ UNCHANGED <<clock, wait_seconds, chart_buf, spawned, startupAttempts,
                   startupDelivered, woke, call, pending, response>>

----------------------------------------------------------------------------
(* analyze_coin, lines 188-284.  Its body is one try block; the code up to  *)
(* the first await (lines 190-270) makes blocking calls only, so it is one  *)
(* step of the event loop.                                                  *)

\* The calls of the try block that reach a provider or build the chart; each
\* handles its own exceptions and hands back an absent value.
ProviderSteps == {"price", "orderbook", "history", "chart", "news"}

\* Where the pipeline can go wrong.
Faults == ProviderSteps \cup {"format"}

\* line 222: a chart exists when the history is non-empty and drawing worked.
HasChart(fault) == fault \notin {"history", "chart"}

\* Variant of lines 301-302 that leaves out the instrument after the i-th.
AfterCoin_SkipNext(i) ==
    IF i + 1 < Len(COINS) THEN [pc |-> "compute", coin |-> i + 2]
                          ELSE [pc |-> "resample", coin |-> 0]

\* lines 301-302: what follows the i-th instrument in the for loop.
AfterCoin(i) ==
    IF i < Len(COINS) THEN [pc |-> "compute", coin |-> i + 1]
                      ELSE [pc |-> "resample", coin |-> 0]

\* Variant with the handler around the for loop instead of inside
\* analyze_coin: an exception ends the pass.
OnError_AbortPass(i) == [pc |-> "resample", coin |-> 0]

\* Variant without the handler of line 283: the exception leaves analyze_coin
\* and loop_crypto, and the task ends.
OnError_Dies(i) == [pc |-> "dead", coin |-> 0]

\* lines 283-284: the handler ends analyze_coin; the for loop goes on.
OnError(i) == AfterCoin(i)

\* Variant that sends the report again when a delivery fails.
OnSendError_Retry(i) == [pc |-> "send_text", coin |-> i]

\* lines 273-284: an exception of send_message or send_photo goes to the same
\* handler; nothing is sent again.
OnSendError(i) == OnError(i)

\* Variant that looks at the clock again before each instrument and leaves
\* the pass when the window has closed.
AnalyzeCompute_Recheck ==
    /\ pc = "compute"
    /\ IF InWindow(Hour(clock), Minute(clock))
          THEN /\ analyzed' = Append(analyzed, COINS[coin])
               /\ \E fault \in Faults \cup {"none"}, d \in Durations :
                     /\ Tick(d)
                     /\ lastError' = IF fault = "none" THEN lastError ELSE fault
                     /\ IF fault = "format"
                           THEN /\ failed' = failed \cup {COINS[coin]}
                                /\ chart_buf' = FALSE
                                /\ done' = Append(done, COINS[coin])
                                /\ pc' = OnError(coin).pc
                                /\ coin' = OnError(coin).coin
                           ELSE /\ chart_buf' = HasChart(fault)
                                /\ pc' = "send_text"
                                /\ UNCHANGED <<failed, coin, done>>
          ELSE /\ pc' = "resample"
               /\ coin' = 0
               /\ UNCHANGED <<clock, analyzed, lastError, failed, chart_buf, done>>
    /\ UNCHANGED <<now, check_now, wait_seconds, branch, sent, spawned,
                   startupAttempts, startupDelivered, woke, call, pending, response>>

\* lines 190-270: price, order book, history, indicators, chart, news, text.
\* `fault` is what goes wrong in this block, if anything.  A provider step
\* that fails is handled by its own client (lines 54, 63, 79, 99, 181, 138,
\* 156): the value is absent and the block goes on to the delivery; an empty
\* history or a failed drawing leaves no chart.  "format" is an exception
\* raised by the block's own statements, which the handler of line 283 takes.
AnalyzeCompute ==
    /\ pc = "compute"
    /\ analyzed' = Append(analyzed, COINS[coin])
    /\ \E fault \in Faults \cup {"none"}, d \in Durations :
          /\ Tick(d)
          /\ lastError' = IF fault = "none" THEN lastError ELSE fault
          /\ IF fault = "format"
                THEN /\ failed' = failed \cup {COINS[coin]}
                     /\ chart_buf' = FALSE
                     /\ done' = Append(done, COINS[coin])
                     /\ pc' = OnError(coin).pc
                     /\ coin' = OnError(coin).coin
                ELSE /\ chart_buf' = HasChart(fault)
                     /\ pc' = "send_text"
                     /\ UNCHANGED <<failed, coin, done>>
    /\ UNCHANGED <<now, check_now, wait_seconds, branch, sent, spawned,
                   startupAttempts, startupDelivered, woke, call, pending, response>>

\* line 273: await bot.send_message(report)
SendText ==
    /\ pc = "send_text"
    /\ \E ok \in BOOLEAN, d \in Durations :
          /\ Tick(d)
          /\ IF ok
                THEN /\ sent' = Append(sent, <<COINS[coin], "report">>)
                     /\ pc' = "send_chart"
                     /\ UNCHANGED <<failed, lastError, coin, chart_buf, done>>
                ELSE /\ failed' = failed \cup {COINS[coin]}
                     /\ lastError' = "send_text"
                     /\ chart_buf' = FALSE
                     /\ done' = Append(done, COINS[coin])
                     /\ pc' = OnSendError(coin).pc
                     /\ coin' = OnSendError(coin).coin
                     /\ UNCHANGED sent
    /\ UNCHANGED <<now, check_now, wait_seconds, branch, analyzed, spawned,
                   startupAttempts, startupDelivered, woke, call, pending, response>>

\* lines 276-282: await bot.send_photo(chart) or the "(No chart available)" text
SendChart ==
    /\ pc = "send_chart"
    /\ \E ok \in BOOLEAN, d \in Durations :
          /\ Tick(d)
          /\ IF ok
                THEN /\ sent' = Append(sent, <<COINS[coin],
                                       IF chart_buf THEN "photo" ELSE "no_chart">>)
                     /\ pc' = AfterCoin(coin).pc
                     /\ coin' = AfterCoin(coin).coin
                     /\ UNCHANGED <<failed, lastError>>
                ELSE /\ failed' = failed \cup {COINS[coin]}
                     /\ lastError' = "send_chart"
                     /\ pc' = OnSendError(coin).pc
                     /\ coin' = OnSendError(coin).coin
                     /\ UNCHANGED sent
    /\ done' = Append(done, COINS[coin])
    /\ chart_buf' = FALSE
    /\ UNCHANGED <<now, check_now, wait_seconds, branch, analyzed, spawned,
                   startupAttempts, startupDelivered, woke, call, pending, response>>

\* lines 307-311: read the clock again and compute the sleep.
ComputeSleep ==
    /\ pc = "resample"
    /\ now' = Resample(clock, now)
    /\ wait_seconds' = WaitSeconds(Resample(clock, now))
    /\ pc' = "sleep"
    /\ UNCHANGED <<coin, clock, check_now, branch, chart_buf, analyzed, failed,
                   lastError, sent, spawned, startupAttempts, startupDelivered,
                   woke, done, call, pending, response>>

\* Variant with the announcement inside the while loop.
AfterSleep_Restart == "startup"

\* lines 296, 312: after the sleep the while loop starts over at line 297.
AfterSleep == "check"

\* line 312: await asyncio.sleep(wait_seconds), taken to last exactly that long.
Sleep ==
    /\ pc = "sleep"
    /\ Tick(wait_seconds)
    /\ woke' = TRUE
    /\ pc' = AfterSleep
    /\ UNCHANGED <<coin, now, check_now, wait_seconds, branch, chart_buf,
                   analyzed, failed, lastError, sent, spawned, startupAttempts,
                   startupDelivered, done, call, pending, response>>

----------------------------------------------------------------------------
(* The liveness endpoint, lines 317-319.  uvicorn reads a request, hands    *)
(* home() to a worker thread and writes the answer from the event loop that *)
(* also runs loop_crypto; it gets a turn only while loop_crypto is          *)
(* suspended in an await.  requests.get does not await: the event loop is   *)
(* held from the moment the sleep returns until bot.send_message is awaited.*)

\* Most requests waiting for an answer at one time.
MaxPending == 1

\* Positions at which loop_crypto is suspended in an await (lines 292, 273,
\* 277/280, 312).
Awaiting == {"startup", "send_text", "send_chart", "sleep"}

\* line 319
ALIVE == [status |-> "alive"]

\* A monitor sends GET /; the server listens once startup is over.
Arrive ==
    /\ pc # "not_started"
    /\ pending < MaxPending
    /\ pending' = pending + 1
    /\ UNCHANGED <<pc, coin, clock, now, check_now, wait_seconds, branch,
                   chart_buf, analyzed, failed, lastError, sent, spawned,
                   startupAttempts, startupDelivered, woke, done, response, call>>

\* Variant that starts the loop from the request handler.
home_SpawnsLoop ==
    /\ pc \in Awaiting
    /\ pending > 0
    /\ pending' = pending - 1
    /\ response' = ALIVE
    /\ spawned' = spawned + 1
    /\ UNCHANGED <<pc, coin, clock, now, check_now, wait_seconds, branch,
                   chart_buf, analyzed, failed, lastError, sent,
                   startupAttempts, startupDelivered, woke, done, call>>

\* lines 317-319: GET / is answered with {"status": "alive"}.
home ==
    /\ pc \in Awaiting
    /\ pending > 0
    /\ pending' = pending - 1
    /\ response' = ALIVE
    /\ UNCHANGED <<pc, coin, clock, now, check_now, wait_seconds, branch,
                   chart_buf, analyzed, failed, lastError, sent, spawned,
                   startupAttempts, startupDelivered, woke, done, call>>

\* loop_crypto on its own.
Next ==
    \/ startup_event
    \/ StartupAnnounce
    \/ WindowCheck
    \/ AnalyzeCompute
    \/ SendText
    \/ SendChart
    \/ ComputeSleep
    \/ Sleep

Spec == Init /\ [][Next]_vars

\* The process: loop_crypto and the requests of the liveness endpoint.
NextServer ==
    \/ Next
    \/ Arrive
    \/ home

SpecServer == Init /\ [][NextServer]_vars

\* Every outbound call and every sleep returns: a step of the loop that can
\* be taken is taken.
SpecLive == Spec /\ WF_vars(Next)

----------------------------------------------------------------------------
(* Data clients.  A try block ends in one of three ways: it returns a      *)
(* value, it falls through to the code after it, or an exception leaves    *)
(* it.  An HTTP exchange is described by what the code can observe of it.  *)

None == -1

Return(v) == [how |-> "return", val |-> v]

FallThrough == [how |-> "fallthrough", val |-> None]

Raise == [how |-> "raise", val |-> None]

\* Prices a source may quote.
PriceValues == {1, 2}

\* A ticker reply of the primary source: `raises` requests.get fails (network,
\* timeout); `json` the body parses; `dict` it is a JSON object; `has` it has
\* the key "price"; `num` float() accepts the value; `val` the value.
TickerReply(raises, json, dict, has, num, val) ==
    [raises |-> raises, json |-> json, dict |-> dict, has |-> has,
     num |-> num, val |-> val]

TickerReplies ==
    { TickerReply(TRUE, FALSE, FALSE, FALSE, FALSE, 0),
      TickerReply(FALSE, FALSE, FALSE, FALSE, FALSE, 0),
      TickerReply(FALSE, TRUE, FALSE, FALSE, FALSE, 0),
      TickerReply(FALSE, TRUE, TRUE, FALSE, FALSE, 0),
      TickerReply(FALSE, TRUE, TRUE, TRUE, FALSE, 0) }
    \cup { TickerReply(FALSE, TRUE, TRUE, TRUE, TRUE, v) : v \in PriceValues }

\* A reply of the fallback source: `has` r2[cg_id]["usd"] exists.
SimplePriceReplies ==
    { TickerReply(TRUE, FALSE, FALSE, FALSE, FALSE, 0),
      TickerReply(FALSE, FALSE, FALSE, FALSE, FALSE, 0),
      TickerReply(FALSE, TRUE, FALSE, FALSE, FALSE, 0),
      TickerReply(FALSE, TRUE, TRUE, FALSE, FALSE, 0),
      TickerReply(FALSE, TRUE, TRUE, TRUE, FALSE, 0) }
    \cup { TickerReply(FALSE, TRUE, TRUE, TRUE, TRUE, v + 2) : v \in PriceValues }

\* lines 36-40: the parsed body, or an empty object when it does not parse.
safe_json(r) ==
    IF r.json THEN r
    ELSE [r EXCEPT !.json = TRUE, !.dict = TRUE, !.has = FALSE]

\* Variant of lines 48-55 without the except clause of line 54.
PrimaryPrice_Uncaught(r) ==
    IF r.raises THEN Raise
    ELSE LET data == safe_json(r) IN
         IF data.dict /\ data.has
            THEN IF data.num THEN Return(data.val) ELSE Raise
            ELSE FallThrough

\* lines 48-55: the primary source; every exception falls through to the
\* fallback, as does a body without a price.
PrimaryPrice(r) ==
    IF r.raises THEN FallThrough
    ELSE LET data == safe_json(r) IN
         IF data.dict /\ data.has
            THEN IF data.num THEN Return(data.val) ELSE FallThrough
            ELSE FallThrough

\* lines 58-65: the fallback source; every exception becomes None.
FallbackPrice(r) ==
    IF r.raises \/ ~r.json \/ ~r.dict \/ ~r.has \/ ~r.num
       THEN Return(None)
       ELSE Return(r.val)

\* lines 45-65: an exception that left the primary block would leave the
\* function; the fallback is asked only after a fall-through.
get_coinbase_price(primary, fallback) ==
    LET first == PrimaryPrice(primary) IN
    IF first.how = "fallthrough"
       THEN [out |-> FallbackPrice(fallback), queried |-> <<"coinbase", "coingecko">>]
       ELSE [out |-> first, queried |-> <<"coinbase">>]

\* line 31
SEND_ORDERBOOK_FALLBACK_ZERO == <<0, 0, 0, 0>>

\* A JSON scalar of an order-book level: `num` float() accepts it.
Num(v) == [num |-> TRUE, val |-> v]

NotNum == [num |-> FALSE, val |-> 0]

\* One side of a level-1 book as the provider may send it: a list of levels,
\* a level being a list [price, size, num_orders].
Sides(p) ==
    { <<>>,
      << <<Num(p), Num(3), Num(1)>> >>,
      << <<Num(p), Num(3)>> >>,
      << <<Num(p), Num(3), Num(1)>>, <<Num(p + 1), Num(4), Num(1)>> >>,
      << <<Num(p)>> >>,
      << <<>> >>,
      << <<NotNum, Num(3), Num(1)>> >>,
      << <<Num(p), NotNum, Num(1)>> >> }

\* A book reply: `raises`, `json`, `dict` as for the ticker; `hasBids` and
\* `hasAsks` the keys are there; `bids` and `asks` their values.
BookReply(raises, json, dict, hasBids, hasAsks, bids, asks) ==
    [raises |-> raises, json |-> json, dict |-> dict, hasBids |-> hasBids,
     hasAsks |-> hasAsks, bids |-> bids, asks |-> asks]

BookReplies ==
    { BookReply(TRUE, FALSE, FALSE, FALSE, FALSE, <<>>, <<>>),
      BookReply(FALSE, FALSE, FALSE, FALSE, FALSE, <<>>, <<>>),
      BookReply(FALSE, TRUE, FALSE, FALSE, FALSE, <<>>, <<>>),
      BookReply(FALSE, TRUE, TRUE, FALSE, FALSE, <<>>, <<>>) }
    \cup { BookReply(FALSE, TRUE, TRUE, TRUE, FALSE, b, <<>>) : b \in Sides(10) }
    \cup { BookReply(FALSE, TRUE, TRUE, FALSE, TRUE, <<>>, a) : a \in Sides(20) }
    \cup { BookReply(FALSE, TRUE, TRUE, TRUE, TRUE, b, a) :
              b \in Sides(10), a \in Sides(20) }

\* lines 36-40 for a book reply.
safe_json_book(r) ==
    IF r.json THEN r
    ELSE [r EXCEPT !.json = TRUE, !.dict = TRUE, !.hasBids = FALSE, !.hasAsks = FALSE]

\* float(side[0][k]) of lines 74-77 goes through: the list has a first level,
\* the level has a k-th entry (k counted from 1 here), the entry is a number.
Readable(side, k) ==
    /\ Len(side) >= 1
    /\ Len(side[1]) >= k
    /\ side[1][k].num

\* Variant of lines 70-83 whose except clause lets the IndexError of an
\* empty bid or ask list through.
get_coinbase_orderbook_IndexUncaught(r) ==
    IF r.raises THEN Return(SEND_ORDERBOOK_FALLBACK_ZERO)
    ELSE LET data == safe_json_book(r) IN
         IF data.dict /\ data.hasBids /\ data.hasAsks
            THEN IF Len(data.bids) = 0 \/ Len(data.asks) = 0
                    THEN [how |-> "raise", val |-> SEND_ORDERBOOK_FALLBACK_ZERO]
                    ELSE IF /\ Readable(data.bids, 1) /\ Readable(data.bids, 2)
                            /\ Readable(data.asks, 1) /\ Readable(data.asks, 2)
                            THEN Return(<<data.bids[1][1].val, data.bids[1][2].val,
                                          data.asks[1][1].val, data.asks[1][2].val>>)
                            ELSE Return(SEND_ORDERBOOK_FALLBACK_ZERO)
            ELSE Return(SEND_ORDERBOOK_FALLBACK_ZERO)

\* lines 67-83: every exception of the try block gives the zero snapshot.
get_coinbase_orderbook(r) ==
    IF r.raises THEN Return(SEND_ORDERBOOK_FALLBACK_ZERO)
    ELSE LET data == safe_json_book(r) IN
         IF data.dict /\ data.hasBids /\ data.hasAsks
            THEN IF /\ Readable(data.bids, 1) /\ Readable(data.bids, 2)
                    /\ Readable(data.asks, 1) /\ Readable(data.asks, 2)
                    THEN Return(<<data.bids[1][1].val, data.bids[1][2].val,
                                  data.asks[1][1].val, data.asks[1][2].val>>)
                    ELSE Return(SEND_ORDERBOOK_FALLBACK_ZERO)
            ELSE Return(SEND_ORDERBOOK_FALLBACK_ZERO)

----------------------------------------------------------------------------
(* get_news_for_symbol, lines 116-159 *)

\* line 116: max_articles
MAX_ARTICLES == 3

\* Longest article list a provider sends in the model.
MaxListLen == 4

\* line 159
SENTINEL == [kind |-> "sentinel", from |-> "nobody", lines |-> <<>>]

\* lines 137, 155
News(provider, lines) == [kind |-> "news", from |-> provider, lines |-> lines]

\* An API key as os.getenv hands it over: unset (None), set to "", or a key.
KeyValues == {"unset", "empty", "key"}

\* Variant without the guards of lines 118 and 142.
Configured_Always(key) == TRUE

\* lines 118, 142: the truth value Python gives the key.
Configured(key) == key = "key"

\* An article: 0 is an entry the loop body cannot format (its "source" is not
\* an object, line 134), any other number an article with that title.
Articles == {0, 1, 2}

SeqsUpTo(S, n) == UNION { [1..k -> S] : k \in 0..n }

\* A news reply: `raises` the request or .json() fails or the body is no
\* object; `usable` r.get("articles", []) can be sliced (it is a list or the
\* key is missing, then `articles` is empty).
NewsReply(raises, usable, articles) ==
    [raises |-> raises, usable |-> usable, articles |-> articles]

NewsReplies ==
    { NewsReply(TRUE, FALSE, <<>>), NewsReply(FALSE, FALSE, <<>>) }
    \cup { NewsReply(FALSE, TRUE, a) : a \in SeqsUpTo(Articles, MaxListLen) }

Min(a, b) == IF a <= b THEN a ELSE b

\* lines 129, 147: r.get("articles", [])[:max_articles]
Slice(articles) == SubSeq(articles, 1, Min(Len(articles), MAX_ARTICLES))

\* Variant without the test of line 130 (and 148).
HasItems_Any(articles) == TRUE

\* line 130 (and 148): the block returns only a non-empty list.
HasItems(articles) == Len(articles) > 0

\* lines 119-139 (and 143-157): one provider's try block.
ProviderBlock(provider, r) ==
    IF r.raises \/ ~r.usable THEN FallThrough
    ELSE LET articles == Slice(r.articles) IN
         IF HasItems(articles)
            THEN IF \E i \in 1..Len(articles) : articles[i] = 0
                    THEN FallThrough
                    ELSE Return(News(provider, articles))
            ELSE FallThrough

\* lines 116-159
get_news_for_symbol(news_key, gnews_key, r1, r2) ==
    LET first == IF Configured(news_key)
                    THEN ProviderBlock("newsapi", r1) ELSE FallThrough
        q1 == IF Configured(news_key) THEN <<"newsapi">> ELSE <<>>
    IN IF first.how = "return"
          THEN [out |-> first, queried |-> q1]
          ELSE LET second == IF Configured(gnews_key)
                                THEN ProviderBlock("gnews", r2) ELSE FallThrough
                   q2 == IF Configured(gnews_key) THEN <<"gnews">> ELSE <<>>
               IN IF second.how = "return"
                     THEN [out |-> second, queried |-> q1 \o q2]
                     ELSE [out |-> Return(SENTINEL), queried |-> q1 \o q2]

----------------------------------------------------------------------------
(* Indicators and their lines in the report (lines 88-111 and 200-239).    *)
(* A float is a fraction [num, den]; a price of the series is a positive    *)
(* integer, or None where the provider's point holds null, which            *)
(* astype(float) turns into NaN.                                            *)

\* Not a number: what rolling(w).mean() holds where its window is not full,
\* and 0/0.
NaN == [num |-> None, den |-> 0]

\* None where the code tests a float with `is not None`.
NoneQ == [num |-> None, den |-> 1]

\* rolling(20) at line 202, calc_rsi(..., 14) at line 203.
SMA_WINDOW == 20
RSI_PERIOD == 14

\* Longest series drawn.
MaxSeriesLen == 21

RECURSIVE Sum(_)
Sum(s) == IF s = <<>> THEN 0 ELSE Head(s) + Sum(Tail(s))

\* The i-th of n points of a series of the given shape.
Point(shape, n, i) ==
    CASE shape = "flat"    -> 2
      [] shape = "rising"  -> i
      [] shape = "falling" -> (n + 1) - i
      [] shape = "zigzag"  -> 2 + (i % 2)
      [] shape = "gap"     -> IF i = 1 THEN None ELSE i

Shapes == {"flat", "rising", "falling", "zigzag", "gap"}

PriceSeries ==
    { [i \in 1..n |-> Point(shape, n, i)] : n \in 0..MaxSeriesLen, shape \in Shapes }

\* What the history request gives: whether it, its decoding and the
\* conversion of the column went through, and the points.
HistoryReplies == [ok : BOOLEAN, prices : PriceSeries]

\* get_history_coingecko, lines 88-101: the price column; empty on any error.
get_history_coingecko(r) == IF r.ok THEN r.prices ELSE <<>>

\* A rolling mean that needs one point only (min_periods = 1).
rolling_mean_MinPeriods1(s, w) ==
    LET from == Max(1, (Len(s) - w) + 1)
        have == SelectSeq(SubSeq(s, from, Len(s)), LAMBDA x : x # None)
    IN  IF have = <<>> THEN NaN ELSE [num |-> Sum(have), den |-> Len(have)]

\* The last entry of s.rolling(w).mean(): the mean of the last w entries, NaN
\* unless there are w of them and none is NaN.
rolling_mean(s, w) ==
    IF Len(s) < w
    THEN NaN
    ELSE LET window == SubSeq(s, (Len(s) - w) + 1, Len(s))
         IN  IF \E i \in DOMAIN window : window[i] = None
             THEN NaN
             ELSE [num |-> Sum(window), den |-> w]

\* Lines 104-106: diff() and the two clips. The first difference is NaN, and
\* so is one next to a NaN point.
Delta_up(series) ==
    [i \in DOMAIN series |->
        IF i = 1 \/ series[i] = None \/ series[i - 1] = None
        THEN None
        ELSE Max(series[i] - series[i - 1], 0)]

Delta_down(series) ==
    [i \in DOMAIN series |->
        IF i = 1 \/ series[i] = None \/ series[i - 1] = None
        THEN None
        ELSE Max(series[i - 1] - series[i], 0)]

\* calc_rsi, lines 103-111, its last entry. roll_up and roll_down have the
\* same denominator, so rs = roll_up.num / roll_down.num: 0/0 is NaN, x/0 is
\* inf and the RSI 100, otherwise 100 - 100 / (1 + rs) = 100 * up / (up + down).
calc_rsi(series, period) ==
    LET roll_up   == rolling_mean(Delta_up(series), period)
        roll_down == rolling_mean(Delta_down(series), period)
    IN  IF roll_up = NaN \/ roll_down = NaN
        THEN NaN
        ELSE IF roll_down.num = 0
             THEN IF roll_up.num = 0 THEN NaN ELSE [num |-> 100, den |-> 1]
             ELSE [num |-> 100 * roll_up.num, den |-> roll_up.num + roll_down.num]

\* Lines 205-206: a NaN becomes None.
NotNaN(x) == IF x = NaN THEN NoneQ ELSE x

\* Lines 201-208: the two indicator values of the report.
Indicators(df) ==
    IF df # <<>>
    THEN [sma_val |-> NotNaN(rolling_mean(df, SMA_WINDOW)),
          rsi_val |-> NotNaN(calc_rsi(df, RSI_PERIOD))]
    ELSE [sma_val |-> NoneQ, rsi_val |-> NoneQ]

\* Lines 228-235: the RSI line, its wording and the value it prints.
rsi_text(rsi_val) ==
    IF rsi_val # NoneQ
    THEN [label |-> IF rsi_val.num < 30 * rsi_val.den THEN "posible sobreventa"
                    ELSE IF rsi_val.num > 70 * rsi_val.den THEN "posible sobrecompra"
                    ELSE "neutro",
          value |-> rsi_val]
    ELSE [label |-> "N/D", value |-> NoneQ]

\* Lines 237-239: the trend line, its wording and the value it prints.
sma_text(price, sma_val) ==
    IF sma_val # NoneQ /\ price # None
    THEN [label |-> IF price * sma_val.den > sma_val.num
                    THEN "por encima" ELSE "por debajo",
          value |-> sma_val]
    ELSE [label |-> "N/D", value |-> NoneQ]

\* Prices the trend line is computed for.
ReportPrices == {None, 1, 2, 3}

----------------------------------------------------------------------------
(* The functions on their own: one call, which draws its inputs.           *)

InitFunctions ==
    /\ Init
    /\ clock = HMS(6, 0, 0)

CallPrice ==
    /\ call = NoCall
    /\ \E p \in TickerReplies, f \in SimplePriceReplies :
          call' = [fn |-> "get_coinbase_price", primary |-> p, fallback |-> f,
                   res |-> get_coinbase_price(p, f)]
    /\ UNCHANGED loopVars

CallOrderbook ==
    /\ call = NoCall
    /\ \E r \in BookReplies :
          call' = [fn |-> "get_coinbase_orderbook", reply |-> r,
                   res |-> get_coinbase_orderbook(r)]
    /\ UNCHANGED loopVars

CallNews ==
    /\ call = NoCall
    /\ \E k1 \in KeyValues, k2 \in KeyValues, r1 \in NewsReplies, r2 \in NewsReplies :
          call' = [fn |-> "get_news_for_symbol", news_key |-> k1, gnews_key |-> k2,
                   r1 |-> r1, r2 |-> r2,
                   res |-> get_news_for_symbol(k1, k2, r1, r2)]
    /\ UNCHANGED loopVars

\* Lines 200-208 and 228-239 for a history reply and a price.
CallIndicators ==
    /\ call = NoCall
    /\ \E r \in HistoryReplies, price \in ReportPrices :
          LET df  == get_history_coingecko(r)
              ind == Indicators(df)
          IN  call' = [fn |-> "indicators", reply |-> r, df |-> df, price |-> price,
                       sma_val |-> ind.sma_val, rsi_val |-> ind.rsi_val,
                       sma_text |-> sma_text(price, ind.sma_val),
                       rsi_text |-> rsi_text(ind.rsi_val)]
    /\ UNCHANGED loopVars

\* lines 307-311 for a reading `t` of the clock.
CallWaitSeconds ==
    /\ call = NoCall
    /\ \E t \in 0..(Day - 1) :
          call' = [fn |-> "wait_seconds", t |-> t, res |-> WaitSeconds(t)]
    /\ UNCHANGED loopVars

NextFunctions ==
    \/ CallWaitSeconds
    \/ CallPrice
    \/ CallOrderbook
    \/ CallNews
    \/ CallIndicators

SpecFunctions == InitFunctions /\ [][NextFunctions]_vars

----------------------------------------------------------------------------
(* Properties of the scheduling loop (checked under Spec) *)

Range(f) == { f[i] : i \in DOMAIN f }

\* C1: per-instrument isolation. Once something has gone wrong in a cycle
\* (a provider step, formatting, or a delivery), the for loop still moves on
\* to the next instrument in order, and the cycle reaches the sleep
\* computation only after all three instruments were analyzed.
C1_Isolation ==
    lastError # "none" =>
        /\ pc = "compute" => coin = Len(analyzed) + 1
        /\ pc \in {"send_text", "send_chart"} => coin = Len(analyzed)
        /\ pc \in {"resample", "sleep", "check"} => analyzed = COINS

\* A pass in which bitcoin's pipeline raised, ripple's report went out all the
\* same, and the loop has slept and is back at the window check.
C1_Witness ==
    /\ pc = "check"
    /\ woke
    /\ "bitcoin" \in failed
    /\ analyzed = COINS
    /\ <<"ripple", "report">> \in Range(sent)

\* C2: window gate. The analysis branch is taken exactly when the reading of
\* the window check lies from 06:00:00 to the end of minute 21:30; outside it
\* nothing is analyzed and nothing is sent in that cycle, inside it the pass
\* covers the instruments.
C2_WindowGate ==
    branch # "none" =>
        /\ branch = "analyze" <=>
              (HMS(6, 0, 0) <= check_now /\ check_now < HMS(21, 31, 0))
        /\ branch = "skip" => (analyzed = <<>> /\ sent = <<>> /\ failed = {})
        /\ (branch = "analyze" /\ pc \in {"resample", "sleep"}) => analyzed = COINS

\* A cycle sampled at 21:30:00 whose pass ran and delivered something.
C2_Witness ==
    /\ check_now = HMS(21, 30, 0)
    /\ branch = "analyze"
    /\ pc = "sleep"
    /\ Len(sent) > 0

\* C3 as stated: a cycle whose reading is later than 21:30:00 runs no analysis.
C3_ClosesAtHalfPastSharp ==
    (branch # "none" /\ check_now > HMS(21, 30, 0)) =>
        (branch = "skip" /\ analyzed = <<>>)

\* C3, amended: the window closes with the end of minute 21:30. A cycle whose
\* reading is 21:30:00 to 21:30:59 runs the analysis; from 21:31:00 on (up to
\* midnight) it runs none.
C3_ClosesAfterMinute30 ==
    branch # "none" =>
        /\ (HMS(21, 30, 0) <= check_now /\ check_now <= HMS(21, 30, 59))
              => branch = "analyze"
        /\ check_now >= HMS(21, 31, 0) => (branch = "skip" /\ analyzed = <<>>)

\* A cycle sampled at 21:30:59 that analyzed all three instruments.
C3_Witness ==
    /\ check_now = HMS(21, 30, 59)
    /\ branch = "analyze"
    /\ analyzed = COINS
    /\ pc = "sleep"

\* C5: aligned wake-up. The sleep is computed from a reading taken when the
\* pass is over (it equals the wall clock at that moment), and when the first
\* top of the hour after that reading plus 5 s is at least 60 s away, the
\* loop is back at the window check exactly then, at hh:00:05.
C5_AlignedWake ==
    /\ pc = "sleep" => now = clock
    /\ (pc = "check" /\ woke) =>
          LET target == (now - (now % 3600)) + 3600 + 5
          IN  target - now >= 60 =>
                 (clock = target % Day /\ clock % 3600 = 5)

\* Back at the window check at hh:00:05 after a pass that took time.
C5_Witness ==
    /\ pc = "check"
    /\ woke
    /\ branch = "analyze"
    /\ now # check_now
    /\ clock % 3600 = 5

\* C10: the startup announcement is attempted once, before the first window
\* check, whether or not it is delivered, and never again.
C10_StartupOnce ==
    /\ startupAttempts <= 1
    /\ pc \in {"not_started", "startup"} =>
          (startupAttempts = 0 /\ branch = "none" /\ ~woke)
    /\ pc \notin {"not_started", "startup"} => startupAttempts = 1

\* The announcement failed and the loop is in a later cycle all the same.
C10_Witness ==
    /\ startupAttempts = 1
    /\ ~startupDelivered
    /\ woke
    /\ pc = "compute"

\* C13: a delivery is not tried again and does not hold the pass up. No
\* instrument has two reports in a cycle; nothing is being sent for an
\* instrument whose pipeline has already failed or returned in this cycle; an
\* instrument that failed has no second message; and after a failed delivery
\* the pass still gets through all three instruments.
C13_NoRetry ==
    /\ \A c \in Range(COINS) :
          Cardinality({i \in DOMAIN sent : sent[i] = <<c, "report">>}) <= 1
    /\ pc \in {"send_text", "send_chart"} =>
          (COINS[coin] \notin failed /\ COINS[coin] \notin Range(done))
    /\ \A c \in failed :
          (<<c, "photo">> \notin Range(sent) /\ <<c, "no_chart">> \notin Range(sent))
    /\ (lastError \in {"send_text", "send_chart"} /\ pc \in {"resample", "sleep"})
          => done = COINS

\* Ethereum's chart was not delivered after its report was; ripple's report
\* went out, and the loop is back at the window check.
C13_Witness ==
    /\ pc = "check"
    /\ woke
    /\ lastError = "send_chart"
    /\ failed = {"ethereum"}
    /\ <<"ethereum", "report">> \in Range(sent)
    /\ <<"ripple", "report">> \in Range(sent)

\* C14: fixed order. The instruments entered in a cycle are a beginning of
\* bitcoin, ethereum, ripple; an instrument is entered only when every one
\* before it has returned; an in-window cycle ends with exactly the three.
C14_FixedOrder ==
    LET order == <<"bitcoin", "ethereum", "ripple">> IN
    /\ Len(analyzed) <= 3
    /\ analyzed = SubSeq(order, 1, Len(analyzed))
    /\ Len(done) <= Len(analyzed)
    /\ done = SubSeq(analyzed, 1, Len(done))
    /\ pc = "compute" => (done = analyzed /\ coin = Len(done) + 1)
    /\ pc \in {"send_text", "send_chart"} =>
          (Len(analyzed) = Len(done) + 1 /\ coin = Len(analyzed))
    /\ (branch = "analyze" /\ pc \in {"resample", "sleep"}) =>
          (analyzed = order /\ done = order)

\* A pass in which every message of every instrument was delivered.
C14_Witness ==
    /\ pc = "sleep"
    /\ failed = {}
    /\ sent = << <<"bitcoin", "report">>, <<"bitcoin", "photo">>,
                 <<"ethereum", "report">>, <<"ethereum", "no_chart">>,
                 <<"ripple", "report">>, <<"ripple", "photo">> >>

\* C18: at most one pass per clock hour. The loop is back at the window check
\* no earlier than 5 s past the first top of the hour after the reading that
\* ended the cycle's work, less than 55 s later than that, and in another
\* clock hour than the window check before.
C18_OnePassPerHour ==
    (pc = "check" /\ woke) =>
        LET away  == (3600 - (now % 3600)) + 5
            slept == ((clock - now) + Day) % Day
        IN  /\ slept >= away
            /\ slept - away < 55
            /\ Hour(clock) # Hour(check_now)

\* The work ended less than 60 s before hh:00:05: the floor delayed the wake-up.
C18_Witness ==
    /\ pc = "check"
    /\ woke
    /\ branch = "analyze"
    /\ now % 3600 > 3545
    /\ clock % 3600 > 5
    /\ clock % 3600 < 60

\* The reading lies in the window.
InHours(t) == HMS(6, 0, 0) <= t /\ t < HMS(21, 31, 0)

\* C19: the window is looked at once per cycle. An instrument is in progress
\* only in a cycle whose reading was in the window, whatever the clock says
\* by then, and such a cycle ends with all three instruments returned, each
\* one that did not fail with its report and its second message sent.
C19_NoRecheck ==
    /\ pc \in {"compute", "send_text", "send_chart"} =>
          (branch = "analyze" /\ InHours(check_now))
    /\ (branch = "analyze" /\ pc \in {"resample", "sleep"}) =>
          /\ done = COINS
          /\ \A c \in Range(COINS) \ failed :
                /\ <<c, "report">> \in Range(sent)
                /\ (<<c, "photo">> \in Range(sent) \/ <<c, "no_chart">> \in Range(sent))

\* The pass began at 21:30:59 and ended after 21:31 with three reports sent.
C19_Witness ==
    /\ pc = "resample"
    /\ check_now = HMS(21, 30, 59)
    /\ clock >= HMS(21, 31, 0)
    /\ failed = {}
    /\ Len(sent) = 6

----------------------------------------------------------------------------
(* Properties of the process with its liveness endpoint (SpecServer) *)

\* C11: the liveness endpoint stays responsive during analysis. Whenever a
\* request is waiting while the loop is inside the provider calls of an
\* instrument, the request can be answered right then.
C11_ServedDuringAnalysis ==
    (pc = "compute" /\ pending > 0) => ENABLED home

\* C12: single sequential consumer. One loop task is created, at startup, and
\* never another, whatever requests come in; at most one instrument's
\* pipeline has been entered and has not returned.
C12_SingleConsumer ==
    /\ spawned <= 1
    /\ pc # "not_started" => spawned = 1
    /\ pc = "not_started" => spawned = 0
    /\ Len(analyzed) - Len(done) \in {0, 1}
    /\ Len(analyzed) - Len(done) = 1 <=> pc \in {"send_text", "send_chart"}

\* A request was answered and another is waiting while an instrument's report
\* is being sent, in a cycle after the first.
C12_Witness ==
    /\ pc = "send_text"
    /\ woke
    /\ response = ALIVE
    /\ pending = 1
    /\ spawned = 1

----------------------------------------------------------------------------
(* Progress of the loop (checked under SpecLive) *)

\* C17: no terminal state. The loop is at the window check again and again;
\* it gets there only from the sleep (or, the first time, from the startup
\* announcement), and the sleep leads nowhere else, so there is exactly one
\* sleep between two window checks.
C17_NoTerminalState ==
    /\ []<>(pc = "check")
    /\ [][(pc' = "check" /\ pc # "check") => pc \in {"sleep", "startup"}]_vars
    /\ [][(pc = "sleep" /\ pc' # "sleep") => pc' = "check"]_vars
    /\ [][(pc = "check" /\ pc' # "check") => pc' \in {"compute", "resample"}]_vars

\* Back at the window check after a pass in which every instrument failed and
\* the startup announcement had failed too.
C17_Witness ==
    /\ pc = "check"
    /\ woke
    /\ ~startupDelivered
    /\ failed = {"bitcoin", "ethereum", "ripple"}

----------------------------------------------------------------------------
(* Properties of the functions (checked under SpecFunctions) *)

\* C4: sleep floor. For every reading of the clock the sleep is at least 60 s,
\* and it is exactly 60 s when the next top of the hour plus 5 s is less than
\* 60 s away.
C4_SleepFloor ==
    call.fn = "wait_seconds" =>
        LET away == (3600 - (call.t % 3600)) + 5
        IN  /\ call.res >= 60
            /\ away < 60 => call.res = 60
            /\ away >= 60 => call.res = away

\* The pass ended at 12:59:30, 35 s before 13:00:05: the sleep is 60 s.
C4_Witness ==
    /\ call.fn = "wait_seconds"
    /\ call.t = HMS(12, 59, 30)
    /\ call.res = 60

\* The reply is a well-formed quote.
Quotes(r) == ~r.raises /\ r.json /\ r.dict /\ r.has /\ r.num

\* C6: price fallback chain. The primary's price when the primary quotes
\* (the fallback is not queried); else the fallback's price when it quotes;
\* else None; never an exception.
C6_PriceFallback ==
    call.fn = "get_coinbase_price" =>
        LET p == call.primary
            f == call.fallback
        IN  /\ call.res.out.how = "return"
            /\ Quotes(p) => (/\ call.res.out.val = p.val
                             /\ call.res.queried = <<"coinbase">>)
            /\ ~Quotes(p) => call.res.queried = <<"coinbase", "coingecko">>
            /\ (~Quotes(p) /\ Quotes(f)) => call.res.out.val = f.val
            /\ (~Quotes(p) /\ ~Quotes(f)) => call.res.out.val = None

\* The primary sent a price that is no number and the fallback quoted.
C6_Witness ==
    /\ call.fn = "get_coinbase_price"
    /\ call.primary.has
    /\ ~call.primary.num
    /\ Quotes(call.fallback)
    /\ call.res.out = Return(call.fallback.val)

\* The side has a first level with a numeric price and a numeric size.
GoodSide(side) ==
    /\ Len(side) >= 1
    /\ Len(side[1]) >= 2
    /\ side[1][1].num
    /\ side[1][2].num

\* C7: order book. The best bid and ask when the reply is complete, the
\* all-zero snapshot on every failure, never an exception.
C7_OrderbookZero ==
    call.fn = "get_coinbase_orderbook" =>
        LET r == call.reply
            complete == /\ ~r.raises /\ r.json /\ r.dict
                        /\ r.hasBids /\ r.hasAsks
                        /\ GoodSide(r.bids) /\ GoodSide(r.asks)
        IN  /\ call.res.how = "return"
            /\ complete => call.res.val = <<r.bids[1][1].val, r.bids[1][2].val,
                                            r.asks[1][1].val, r.asks[1][2].val>>
            /\ ~complete => call.res.val = <<0, 0, 0, 0>>

\* Bids came, the ask list was empty: the zero snapshot.
C7_Witness ==
    /\ call.fn = "get_coinbase_orderbook"
    /\ call.reply.hasBids
    /\ call.reply.hasAsks
    /\ GoodSide(call.reply.bids)
    /\ call.reply.asks = <<>>
    /\ call.res = Return(<<0, 0, 0, 0>>)

\* C8: credentials gate. A provider whose key is unset or empty is not
\* queried; with neither key the result is the sentinel and nobody is queried.
C8_NewsKeyGate ==
    call.fn = "get_news_for_symbol" =>
        /\ "newsapi" \in Range(call.res.queried) => call.news_key = "key"
        /\ "gnews" \in Range(call.res.queried) => call.gnews_key = "key"
        /\ (call.news_key # "key" /\ call.gnews_key # "key") =>
              (call.res.queried = <<>> /\ call.res.out = Return(SENTINEL))

\* No key at all although both providers would have had articles.
C8_Witness ==
    /\ call.fn = "get_news_for_symbol"
    /\ call.news_key = "unset"
    /\ call.gnews_key = "empty"
    /\ call.r1.articles = <<1>>
    /\ call.r2.articles = <<2>>
    /\ call.res.queried = <<>>
    /\ call.res.out.val = SENTINEL

\* The first max_articles entries of the list.
FirstThree(a) == [i \in 1..(IF Len(a) < 3 THEN Len(a) ELSE 3) |-> a[i]]

\* The provider answers with at least one article, all of the first three
\* well-formed; anything else is a failure or an empty result.
Yields(r) ==
    /\ ~r.raises
    /\ r.usable
    /\ Len(r.articles) >= 1
    /\ \A i \in DOMAIN FirstThree(r.articles) : r.articles[i] # 0

\* C9: news fallback order. The primary, when configured, is queried first and
\* its articles are returned when it yields any; the secondary is queried
\* only when the primary did not yield, and then its articles are returned
\* when it yields; the sentinel comes back exactly when no configured
\* provider yields.
C9_NewsOrder ==
    call.fn = "get_news_for_symbol" =>
        LET one == call.news_key = "key" /\ Yields(call.r1)
            two == call.gnews_key = "key" /\ Yields(call.r2)
            q   == call.res.queried
        IN  /\ call.news_key = "key" => (Len(q) >= 1 /\ q[1] = "newsapi")
            /\ one => (/\ q = <<"newsapi">>
                       /\ call.res.out = Return(News("newsapi", FirstThree(call.r1.articles))))
            /\ (~one /\ call.gnews_key = "key") => q[Len(q)] = "gnews"
            /\ (~one /\ two) =>
                  call.res.out = Return(News("gnews", FirstThree(call.r2.articles)))
            /\ call.res.out.val = SENTINEL <=> (~one /\ ~two)

\* Both keys set, the primary answered with an empty list, the secondary's
\* four articles came back cut to three.
C9_Witness ==
    /\ call.fn = "get_news_for_symbol"
    /\ call.news_key = "key"
    /\ call.gnews_key = "key"
    /\ call.r1 = NewsReply(FALSE, TRUE, <<>>)
    /\ call.r2.articles = <<1, 2, 1, 0>>
    /\ call.res.queried = <<"newsapi", "gnews">>
    /\ call.res.out.val = News("gnews", <<1, 2, 1>>)

\* C15: the trend line is three-way. With the price and the moving average
\* both present the line says above when the price is greater, below when it
\* is smaller, and neither of the two when they are equal; with either one
\* absent it is the placeholder.
C15_ThreeWayTrend ==
    call.fn = "indicators" =>
        LET p == call.price
            m == call.sma_val
            l == call.sma_text.label
        IN  IF p = None \/ m = NoneQ
            THEN l = "N/D"
            ELSE /\ p * m.den > m.num => l = "por encima"
                 /\ p * m.den < m.num => l = "por debajo"
                 /\ p * m.den = m.num => l \notin {"por encima", "por debajo", "N/D"}

\* C16: indicators are absent on short series. Fewer than 20 points: no
\* moving average, and the trend line is the placeholder; fewer than 14
\* points: no RSI, and the RSI line is the placeholder; no point at all:
\* neither.
C16_ShortSeriesAbsent ==
    call.fn = "indicators" =>
        LET n == Len(call.df) IN
        /\ n < 20 => /\ call.sma_val = NoneQ
                     /\ call.sma_text = [label |-> "N/D", value |-> NoneQ]
        /\ n < 14 => /\ call.rsi_val = NoneQ
                     /\ call.rsi_text = [label |-> "N/D", value |-> NoneQ]
        /\ n = 0  => /\ call.sma_val = NoneQ
                     /\ call.rsi_val = NoneQ

\* Nineteen points fetched and a price known: the RSI line has a number, the
\* trend line has none.
C16_Witness ==
    /\ call.fn = "indicators"
    /\ call.reply.ok
    /\ Len(call.df) = 19
    /\ call.price # None
    /\ call.rsi_val # NoneQ
    /\ call.rsi_text.label = "posible sobrecompra"
    /\ call.sma_text.label = "N/D"

====
